---- MODULE Spec2Model ----
(***************************************************************************)
(* OTLP log and metric pipelines of opentelemetry-otlp: the typestate      *)
(* builders (logs.rs, metric.rs), the exporter wrappers that forward to a  *)
(* transport client, the Delta temporality selector, and the batch log     *)
(* processor the log pipeline installs.                                    *)
(***************************************************************************)
EXTENDS Integers, Sequences, FiniteSets, TLC

VARIABLES
    features,        \* cargo features the crate was compiled with
    otlpPipeline,    \* TRUE while the OtlpPipeline value has not been consumed yet
    logPipe,         \* the OtlpLogPipeline<EB> value being built
    logCalls,        \* per log setter, the argument of its latest call (None: not called)
    logLive,         \* FALSE once install_* has consumed (moved) the pipeline
    logResult,       \* what install_simple / install_batch returned
    loggerProvider,  \* the LoggerProvider an install constructed, or NoProvider
    metPipe,         \* the OtlpMetricPipeline<RT, EB> value being built
    metCalls,        \* per metric setter, the argument of its latest call (None: not called)
    metLive,         \* FALSE once build has consumed (moved) the pipeline
    metResult,       \* what OtlpMetricPipeline::build returned
    meterProvider,   \* the SdkMeterProvider build constructed, or NoProvider
    metAnswers,      \* per instrument kind, the temporalities the built exporter answered
    metAggAnswer,    \* the last aggregation the built exporter answered, with its kind
    logClient,       \* the transport client behind the OTLP LogExporter: the calls it got
    queue,           \* records buffered by the batch processor, oldest first
    emitted,         \* number of emit calls made so far; record k is the k-th emitted
    lastEmit,        \* what the last emit call did with its record
    dropped,         \* the drop counter
    consumer,        \* the background consumer: "idle", "exporting" or "stopped"
    drainMode,       \* why the consumer is draining: "none", "normal", "flush", "shutdown"
    inFlight,        \* batches handed to export whose call has not completed yet
    timerDue,        \* scheduled_delay has elapsed since the timer was last served
    exportErrors,    \* export failures recorded internally
    clientResult,    \* how the client's last finished export call ended, "none" before
    flushCalls,      \* number of force_flush calls made so far
    flushPending,    \* force_flush requests the consumer has not picked up yet
    flushServing,    \* the force_flush request the consumer is draining for
    flushState,      \* the force_flush caller: "none", "waiting", "ok", "err"
    flushMark,       \* value of emitted when the latest force_flush was called
    flushTimedOut,   \* TRUE once a force_flush has returned the deadline error
    shutState,       \* "none", "waiting" (first shutdown in progress), "done"
    shutdownCalls,   \* number of shutdown calls made so far
    lastShutdown,    \* what the last shutdown call found: "none", "first", "running", "done"
    exporterShutdowns, \* calls of the exporter's shutdown made by the processor
    discarded,       \* records discarded by a shutdown drain that ran out of time
    metClient,       \* the transport client behind the OTLP MetricsExporter: the calls it got
    measurements,    \* instrument measurements recorded so far
    readerTimer,     \* TRUE while the periodic reader's timer is running
    readerPc,        \* the reader task: "none", "idle", "exporting", "stopping", "final",
                     \* "closing", "shutdown"
    metCycles,       \* collect+export cycles started by a tick or a force_flush
    metExportErrors, \* cycles whose export failed or timed out (data discarded)
    metClientResult, \* how the metrics client's last finished export call ended
    metShutdownCall, \* the caller of the reader's shutdown: "none", "waiting", "returned"
    metClientShutdown, \* what the client's shutdown returned: "none", "ok", "err"
    metShutdownResult  \* what MetricsExporter::shutdown returned: "none", "ok", "err"

logBuilderVars == <<logPipe, logCalls, logLive, logResult, loggerProvider>>
readerVars == <<metClient, measurements, readerTimer, readerPc, metCycles, metExportErrors,
                metClientResult,
                metShutdownCall, metClientShutdown, metShutdownResult>>
metBuilderVars == <<metPipe, metCalls, metLive, metResult, meterProvider, metAnswers, metAggAnswer,
                    readerVars>>
producerVars == <<emitted, lastEmit, dropped>>
flushVars == <<flushCalls, flushPending, flushServing, flushState, flushMark, flushTimedOut>>
shutVars == <<shutState, shutdownCalls, lastShutdown, exporterShutdowns, discarded>>
consumerVars == <<consumer, drainMode, inFlight, timerDue, exportErrors, clientResult>>
vars == <<features, otlpPipeline, logBuilderVars, metBuilderVars, logClient, queue, producerVars,
          flushVars, shutVars, consumerVars>>

----------------------------------------------------------------------------
(* Option<T>, Result<T, E> *)

None == <<>>
Some(x) == <<x>>
IsSome(o) == o /= None
Unwrap(o) == o[1]

Ok(v) == [ok |-> TRUE, val |-> <<v>>, err |-> ""]
Err(e) == [ok |-> FALSE, val |-> <<>>, err |-> e]

NoProvider == [built |-> FALSE]
NoPipeline == [exists |-> FALSE]

----------------------------------------------------------------------------
(* Inputs the builder calls are driven with *)

NumResources == 2
NumDurations == 2

Resources == 1..NumResources
Durations == 1..NumDurations
AllFeatures == {"grpc-tonic", "http-proto"}
TransportBuilders == {"TonicExporterBuilder", "HttpExporterBuilder"}

(* BatchConfig values a caller may pass to with_batch_config. *)
MaxQueue == 3
MaxBatch == 2

BatchConfig(q, b) == [max_queue_size |-> q, max_export_batch_size |-> b]
BatchConfigs == {BatchConfig(MaxQueue, MaxBatch), BatchConfig(MaxBatch, 1)}

(* BatchConfig::default() of the SDK. *)
DefaultMaxQueueSize == 2048
DefaultMaxExportBatchSize == 512
DefaultBatchConfig == BatchConfig(DefaultMaxQueueSize, DefaultMaxExportBatchSize)

----------------------------------------------------------------------------
(* logs.rs: LogExporterBuilder and its conversions *)

NoExporterConfig == "NoExporterConfig"

\* The variants of enum LogExporterBuilder that exist under the compiled features.
LogExporterBuilder(f) ==
    (IF "grpc-tonic" \in f THEN {"Tonic"} ELSE {})
        \cup (IF "http-proto" \in f THEN {"Http"} ELSE {})

\* impl From<TonicExporterBuilder> / From<HttpExporterBuilder> for LogExporterBuilder
LogExporterBuilder_from(exporter) ==
    IF exporter = "TonicExporterBuilder" THEN "Tonic" ELSE "Http"

\* What a caller can hand to with_exporter<B: Into<LogExporterBuilder>>: a
\* transport builder whose From impl is compiled in, or a LogExporterBuilder.
LogExporterBuilder_inputs(f) ==
    {b \in TransportBuilders : LogExporterBuilder_from(b) \in LogExporterBuilder(f)}
        \cup LogExporterBuilder(f)

\* pipeline.into()
LogExporterBuilder_into(b) ==
    IF b \in TransportBuilders THEN LogExporterBuilder_from(b) ELSE b

\* LogExporter::new: the wrapper owns the boxed transport client.
LogExporter_new(client) == [client |-> client]

\* LogExporterBuilder::build_log_exporter: dispatch to the transport builder,
\* whose own build succeeds or fails (transportOk).
LogExporterBuilder_build_log_exporter(self, transportOk) ==
    IF transportOk
    THEN Ok(LogExporter_new(IF self = "Tonic" THEN "TonicLogsClient" ELSE "HttpLogsClient"))
    ELSE Err("LogError")

----------------------------------------------------------------------------
(* logs.rs: OtlpLogPipeline<EB> *)

\* OtlpPipeline::logging
OtlpPipeline_logging ==
    [resource |-> None, exporter_builder |-> NoExporterConfig, batch_config |-> None]

OtlpLogPipeline_with_resource(self, resource) ==
    [self EXCEPT !.resource = Some(resource)]

OtlpLogPipeline_with_batch_config(self, batch_config) ==
    [self EXCEPT !.batch_config = Some(batch_config)]

\* impl OtlpLogPipeline<NoExporterConfig>: the receiver type of with_exporter
OtlpLogPipeline_NoExporterConfig(self) ==
    self.exporter_builder = NoExporterConfig

\* A with_exporter that starts the configured pipeline from empty fields.
OtlpLogPipeline_with_exporter_fresh(self, pipeline) ==
    [exporter_builder |-> pipeline, resource |-> None, batch_config |-> None]

OtlpLogPipeline_with_exporter(self, pipeline) ==
    [exporter_builder |-> pipeline,
     resource |-> self.resource,
     batch_config |-> self.batch_config]

\* install_* offered on every OtlpLogPipeline<EB>.
OtlpLogPipeline_AnyExporterBuilder(self, f) == TRUE

\* impl OtlpLogPipeline<LogExporterBuilder>: the receiver type of install_*
OtlpLogPipeline_LogExporterBuilder(self, f) ==
    self.exporter_builder \in LogExporterBuilder(f)

\* LoggerProvider::builder().with_simple_exporter(exporter)[.with_resource(r)].build()
build_simple_with_exporter(exporter, resource) ==
    [built |-> TRUE, processor |-> "simple", exporter |-> exporter,
     resource |-> resource, config |-> None]

\* A build that leaves the processor on BatchConfig::default().
build_batch_ignoring_config(exporter, resource, batch_config) ==
    [built |-> TRUE, processor |-> "batch", exporter |-> exporter,
     resource |-> resource, config |-> Some(DefaultBatchConfig)]

\* BatchLogProcessor::builder(exporter, runtime)
\*     .with_batch_config(batch_config.unwrap_or_default()).build()
build_batch_with_exporter(exporter, resource, batch_config) ==
    [built |-> TRUE, processor |-> "batch", exporter |-> exporter,
     resource |-> resource,
     config |-> Some(IF IsSome(batch_config) THEN Unwrap(batch_config)
                     ELSE DefaultBatchConfig)]

\* install_simple: Ok(build_simple_with_exporter(build_log_exporter()?, resource))
OtlpLogPipeline_install_simple(self, transportOk) ==
    LET e == LogExporterBuilder_build_log_exporter(self.exporter_builder, transportOk)
    IN  IF e.ok THEN Ok(build_simple_with_exporter(Unwrap(e.val), self.resource))
        ELSE Err(e.err)

\* install_batch: Ok(build_batch_with_exporter(build_log_exporter()?, resource, rt, cfg))
OtlpLogPipeline_install_batch(self, transportOk) ==
    LET e == LogExporterBuilder_build_log_exporter(self.exporter_builder, transportOk)
    IN  IF e.ok
        THEN Ok(build_batch_with_exporter(Unwrap(e.val), self.resource, self.batch_config))
        ELSE Err(e.err)

----------------------------------------------------------------------------
(* metric.rs: selectors *)

InstrumentKind ==
    {"Counter", "UpDownCounter", "Histogram", "Gauge",
     "ObservableCounter", "ObservableUpDownCounter", "ObservableGauge"}

Temporality == {"Cumulative", "Delta"}

\* Delta for every kind, the up/down counters included.
DeltaTemporalitySelector_alwaysDelta(kind) == "Delta"

\* impl TemporalitySelector for DeltaTemporalitySelector
DeltaTemporalitySelector_temporality(kind) ==
    CASE kind \in {"Counter", "Histogram", "ObservableCounter", "Gauge",
                   "ObservableGauge"} -> "Delta"
      [] kind \in {"UpDownCounter", "ObservableUpDownCounter"} -> "Cumulative"

\* DefaultTemporalitySelector of the SDK: Cumulative for every kind.
DefaultTemporalitySelector_temporality(kind) == "Cumulative"

\* A selector supplied by the caller: the opposite preference, Delta only for
\* the up/down counters.
CustomTemporalitySelector_temporality(kind) ==
    IF kind \in {"UpDownCounter", "ObservableUpDownCounter"} THEN "Delta"
    ELSE "Cumulative"

TemporalitySelectors ==
    {"DefaultTemporalitySelector", "DeltaTemporalitySelector", "CustomTemporalitySelector"}
AggregationSelectors == {"DefaultAggregationSelector", "CustomAggregationSelector"}

Aggregation == {"Sum", "LastValue", "ExplicitBucketHistogram", "Drop"}

\* DefaultAggregationSelector of the SDK: Sum for the counters, LastValue for the
\* gauges, an explicit-bucket histogram for Histogram; an observable instrument
\* is aggregated like its synchronous counterpart.
DefaultAggregationSelector_aggregation(kind) ==
    CASE kind \in {"Counter", "UpDownCounter", "ObservableCounter",
                   "ObservableUpDownCounter"} -> "Sum"
      [] kind \in {"Gauge", "ObservableGauge"} -> "LastValue"
      [] kind = "Histogram" -> "ExplicitBucketHistogram"

\* A selector supplied by the caller: it differs from the default on every kind.
CustomAggregationSelector_aggregation(kind) ==
    CASE kind \in {"Counter", "UpDownCounter", "ObservableCounter",
                   "ObservableUpDownCounter"} -> "LastValue"
      [] kind \in {"Gauge", "ObservableGauge"} -> "Drop"
      [] kind = "Histogram" -> "Sum"

\* Box<dyn AggregationSelector>::aggregation: dynamic dispatch on the boxed selector.
AggregationSelector_aggregation(selector, kind) ==
    CASE selector = "DefaultAggregationSelector" -> DefaultAggregationSelector_aggregation(kind)
      [] selector = "CustomAggregationSelector" -> CustomAggregationSelector_aggregation(kind)

\* Box<dyn TemporalitySelector>::temporality: dynamic dispatch on the boxed selector.
TemporalitySelector_temporality(selector, kind) ==
    CASE selector = "DeltaTemporalitySelector" -> DeltaTemporalitySelector_temporality(kind)
      [] selector = "DefaultTemporalitySelector" -> DefaultTemporalitySelector_temporality(kind)
      [] selector = "CustomTemporalitySelector" -> CustomTemporalitySelector_temporality(kind)

----------------------------------------------------------------------------
(* metric.rs: MetricsExporterBuilder, MetricsExporter *)

\* The variants of enum MetricsExporterBuilder that exist under the compiled features.
MetricsExporterBuilder(f) ==
    (IF "grpc-tonic" \in f THEN {"Tonic"} ELSE {})
        \cup (IF "http-proto" \in f THEN {"Http"} ELSE {})
        \cup (IF f \cap {"http-proto", "grpc-tonic"} = {} THEN {"Unconfigured"} ELSE {})

\* impl From<TonicExporterBuilder> / From<HttpExporterBuilder> for MetricsExporterBuilder
MetricsExporterBuilder_from(exporter) ==
    IF exporter = "TonicExporterBuilder" THEN "Tonic" ELSE "Http"

\* What a caller can hand to with_exporter<B: Into<MetricsExporterBuilder>>: a
\* transport builder whose From impl is compiled in, or a MetricsExporterBuilder.
MetricsExporterBuilder_inputs(f) ==
    {b \in TransportBuilders : MetricsExporterBuilder_from(b) \in MetricsExporterBuilder(f)}
        \cup MetricsExporterBuilder(f)

\* pipeline.into()
MetricsExporterBuilder_into(b) ==
    IF b \in TransportBuilders THEN MetricsExporterBuilder_from(b) ELSE b

\* MetricsExporter::new
MetricsExporter_new(client, temporality_selector, aggregation_selector) ==
    [client |-> client,
     temporality_selector |-> temporality_selector,
     aggregation_selector |-> aggregation_selector]

\* The Unconfigured arm handing back an exporter instead of the error.
MetricsExporterBuilder_build_unconfigured_ok(self, temporality_selector, aggregation_selector, transportOk) ==
    IF self = "Unconfigured" \/ transportOk
    THEN Ok(MetricsExporter_new("NoClient", temporality_selector, aggregation_selector))
    ELSE Err("MetricsError")

\* MetricsExporterBuilder::build_metrics_exporter
MetricsExporterBuilder_build_metrics_exporter(self, temporality_selector, aggregation_selector, transportOk) ==
    CASE self = "Tonic" ->
            IF transportOk
            THEN Ok(MetricsExporter_new("TonicMetricsClient", temporality_selector,
                                        aggregation_selector))
            ELSE Err("MetricsError")
      [] self = "Http" ->
            IF transportOk
            THEN Ok(MetricsExporter_new("HttpMetricsClient", temporality_selector,
                                        aggregation_selector))
            ELSE Err("MetricsError")
      [] self = "Unconfigured" -> Err("no configured metrics exporter")

\* impl TemporalitySelector for MetricsExporter
MetricsExporter_temporality(self, kind) ==
    TemporalitySelector_temporality(self.temporality_selector, kind)

\* An exporter that answers with the default aggregation whatever it was given.
MetricsExporter_aggregation_default(self, kind) ==
    DefaultAggregationSelector_aggregation(kind)

\* impl AggregationSelector for MetricsExporter
MetricsExporter_aggregation(self, kind) ==
    AggregationSelector_aggregation(self.aggregation_selector, kind)

\* The MetricsClient behind the exporter, seen through the calls it receives.
NewMetricsClient == [exports |-> <<>>, shutdowns |-> 0]

\* MetricsExporter::export: self.client.export(metrics).await
MetricsExporter_export(c, metrics) == [c EXCEPT !.exports = Append(@, metrics)]

\* The Result of MetricsExporter::export is the client's, handed on as it is.
MetricsExporter_export_result(result) == result

\* A shutdown that stays in the wrapper and never reaches the client.
MetricsExporter_shutdown_noop(c) == c

\* MetricsExporter::shutdown: self.client.shutdown()
MetricsExporter_shutdown(c) == [c EXCEPT !.shutdowns = @ + 1]

\* The Result of MetricsExporter::shutdown is the client's, handed on as it is.
MetricsExporter_shutdown_result(result) == result

----------------------------------------------------------------------------
(* metric.rs: OtlpMetricPipeline<RT, EB> *)

\* OtlpPipeline::metrics(rt)
OtlpPipeline_metrics(rt) ==
    [rt |-> rt,
     aggregator_selector |-> None,
     temporality_selector |-> None,
     exporter_pipeline |-> NoExporterConfig,
     resource |-> None,
     period |-> None,
     timeout |-> None]

OtlpMetricPipeline_with_resource(self, resource) ==
    [self EXCEPT !.resource = Some(resource)]

OtlpMetricPipeline_with_timeout(self, timeout) ==
    [self EXCEPT !.timeout = Some(timeout)]

OtlpMetricPipeline_with_period(self, period) ==
    [self EXCEPT !.period = Some(period)]

OtlpMetricPipeline_with_temporality_selector(self, selector) ==
    [self EXCEPT !.temporality_selector = Some(selector)]

OtlpMetricPipeline_with_delta_temporality(self) ==
    OtlpMetricPipeline_with_temporality_selector(self, "DeltaTemporalitySelector")

OtlpMetricPipeline_with_aggregation_selector(self, selector) ==
    [self EXCEPT !.aggregator_selector = Some(selector)]

\* impl<RT> OtlpMetricPipeline<RT, NoExporterConfig>: the receiver type of with_exporter
OtlpMetricPipeline_NoExporterConfig(self) ==
    self.exporter_pipeline = NoExporterConfig

OtlpMetricPipeline_with_exporter(self, pipeline) ==
    [exporter_pipeline |-> pipeline,
     rt |-> self.rt,
     aggregator_selector |-> self.aggregator_selector,
     temporality_selector |-> self.temporality_selector,
     resource |-> self.resource,
     period |-> self.period,
     timeout |-> self.timeout]

\* impl<RT> OtlpMetricPipeline<RT, MetricsExporterBuilder>: the receiver type of build
OtlpMetricPipeline_MetricsExporterBuilder(self, f) ==
    self.exporter_pipeline \in MetricsExporterBuilder(f)

\* OtlpMetricPipeline::build. The PeriodicReader keeps the interval and timeout it
\* was given (None: the reader's own default), the provider the resource.
OtlpMetricPipeline_build(self, transportOk) ==
    LET exporter ==
            MetricsExporterBuilder_build_metrics_exporter(
                self.exporter_pipeline,
                IF IsSome(self.temporality_selector) THEN Unwrap(self.temporality_selector)
                ELSE "DefaultTemporalitySelector",
                IF IsSome(self.aggregator_selector) THEN Unwrap(self.aggregator_selector)
                ELSE "DefaultAggregationSelector",
                transportOk)
    IN  IF ~exporter.ok THEN Err(exporter.err)
        ELSE Ok([built |-> TRUE,
                 reader |-> [exporter |-> Unwrap(exporter.val),
                             rt |-> self.rt,
                             interval |-> self.period,
                             timeout |-> self.timeout],
                 resource |-> self.resource])

----------------------------------------------------------------------------
(* logs.rs, export/logs/mod.rs: the OTLP LogExporter wrapper around its client. *)
(* The client is seen through the calls it receives.                        *)

NewClient == [exports |-> <<>>, resource |-> None, shutdowns |-> 0]

\* An export that hands the batch to the client a second time.
LogExporter_export_twice(c, batch) ==
    [c EXCEPT !.exports = Append(Append(@, batch), batch)]

\* LogExporter::export: Box::pin(self.client.export(batch))
LogExporter_export(c, batch) == [c EXCEPT !.exports = Append(@, batch)]

\* The result of LogExporter::export is the client's future, handed on as it is.
LogExporter_export_result(result) == result

\* LogExporter::set_resource: self.client.set_resource(resource)
LogExporter_set_resource(c, resource) == [c EXCEPT !.resource = Some(resource)]

\* LogExporter::shutdown: the impl in logs.rs does not define it, so the trait's
\* provided method runs: fn shutdown(&mut self) {}
LogExporter_shutdown(c) == c

----------------------------------------------------------------------------
(* Initial states *)

runtimeVars == <<logClient, queue, producerVars, flushVars, shutVars, consumerVars>>

\* The batch processor as constructed: nothing queued, the consumer idle.
ProcessorInit ==
    /\ queue = <<>>
    /\ emitted = 0
    /\ lastEmit = "none"
    /\ dropped = 0
    /\ consumer = "idle"
    /\ drainMode = "none"
    /\ inFlight = <<>>
    /\ timerDue = FALSE
    /\ exportErrors = 0
    /\ clientResult = "none"
    /\ flushCalls = 0
    /\ flushPending = {}
    /\ flushServing = 0
    /\ flushState = "none"
    /\ flushMark = 0
    /\ flushTimedOut = FALSE
    /\ shutState = "none"
    /\ shutdownCalls = 0
    /\ lastShutdown = "none"
    /\ exporterShutdowns = 0
    /\ discarded = 0

\* No setter has been called yet.
NoLogCalls == [resource |-> None, batch_config |-> None]

NoMetCalls ==
    [resource |-> None, period |-> None, timeout |-> None,
     temporality_selector |-> None, aggregator_selector |-> None]

LogBuilderInit ==
    /\ logPipe = NoPipeline
    /\ logCalls = NoLogCalls
    /\ logLive = FALSE
    /\ logResult = "NotCalled"
    /\ loggerProvider = NoProvider

\* No periodic reader exists before build: no timer, no task, no call to a client.
ReaderInit ==
    /\ metClient = NewMetricsClient
    /\ measurements = 0
    /\ readerTimer = FALSE
    /\ readerPc = "none"
    /\ metCycles = 0
    /\ metExportErrors = 0
    /\ metClientResult = "none"
    /\ metShutdownCall = "none"
    /\ metClientShutdown = "none"
    /\ metShutdownResult = "none"

MetBuilderInit ==
    /\ metPipe = NoPipeline
    /\ metCalls = NoMetCalls
    /\ metLive = FALSE
    /\ metResult = "NotCalled"
    /\ meterProvider = NoProvider
    /\ metAnswers = [kind \in InstrumentKind |-> {}]
    /\ metAggAnswer = None
    /\ ReaderInit

\* new_pipeline() has returned an OtlpPipeline, under any feature set.
Init ==
    /\ features \in SUBSET AllFeatures
    /\ otlpPipeline = TRUE
    /\ LogBuilderInit
    /\ MetBuilderInit
    /\ logClient = NewClient
    /\ ProcessorInit

----------------------------------------------------------------------------
(* Builder calls on the log pipeline *)

\* OtlpPipeline::logging(self)
Logging ==
    /\ otlpPipeline
    /\ otlpPipeline' = FALSE
    /\ logPipe' = OtlpPipeline_logging
    /\ logLive' = TRUE
    /\ UNCHANGED <<logCalls, features, logResult, loggerProvider, metBuilderVars, runtimeVars>>

LogWithResource ==
    /\ logLive
    /\ \E r \in Resources :
          /\ logPipe' = OtlpLogPipeline_with_resource(logPipe, r)
          /\ logCalls' = [logCalls EXCEPT !.resource = Some(r)]
    /\ UNCHANGED <<features, otlpPipeline, logLive, logResult, loggerProvider, metBuilderVars, runtimeVars>>

LogWithBatchConfig ==
    /\ logLive
    /\ \E c \in BatchConfigs :
          /\ logPipe' = OtlpLogPipeline_with_batch_config(logPipe, c)
          /\ logCalls' = [logCalls EXCEPT !.batch_config = Some(c)]
    /\ UNCHANGED <<features, otlpPipeline, logLive, logResult, loggerProvider, metBuilderVars, runtimeVars>>

LogWithExporter ==
    /\ logLive
    /\ OtlpLogPipeline_NoExporterConfig(logPipe)
    /\ \E b \in LogExporterBuilder_inputs(features) :
          logPipe' = OtlpLogPipeline_with_exporter(logPipe, LogExporterBuilder_into(b))
    /\ UNCHANGED <<logCalls, features, otlpPipeline, logLive, logResult, loggerProvider, metBuilderVars, runtimeVars>>

\* The caller's view of an install: the Result, and the provider inside an Ok.
LogInstalled(result) ==
    /\ logLive' = FALSE
    /\ logResult' = IF result.ok THEN "Ok" ELSE "Err"
    /\ loggerProvider' = IF result.ok THEN Unwrap(result.val) ELSE NoProvider
    /\ UNCHANGED <<features, otlpPipeline, logPipe, logCalls, metBuilderVars, runtimeVars>>

LogInstallSimple ==
    /\ logLive
    /\ OtlpLogPipeline_LogExporterBuilder(logPipe, features)
    /\ \E transportOk \in BOOLEAN :
          LogInstalled(OtlpLogPipeline_install_simple(logPipe, transportOk))

LogInstallBatch ==
    /\ logLive
    /\ OtlpLogPipeline_LogExporterBuilder(logPipe, features)
    /\ \E transportOk \in BOOLEAN :
          LogInstalled(OtlpLogPipeline_install_batch(logPipe, transportOk))

\* LogExporter::set_resource(&resource), called on the exporter by the provider
\* that owns it, at a time and with a resource of the provider's choosing.
LogSetResource ==
    /\ loggerProvider.built
    /\ \E r \in Resources : logClient' = LogExporter_set_resource(logClient, r)
    /\ UNCHANGED <<features, otlpPipeline, logBuilderVars, metBuilderVars, queue, producerVars,
                   flushVars, shutVars, consumerVars>>

----------------------------------------------------------------------------
(* Builder calls on the metric pipeline *)

\* OtlpPipeline::metrics(self, rt)
Metrics ==
    /\ otlpPipeline
    /\ otlpPipeline' = FALSE
    /\ metPipe' = OtlpPipeline_metrics("rt")
    /\ metLive' = TRUE
    /\ UNCHANGED <<metCalls, features, metResult, meterProvider, metAnswers, metAggAnswer, readerVars, logBuilderVars,
                   runtimeVars>>

MetSet(p, calls) ==
    /\ metLive
    /\ metPipe' = p
    /\ metCalls' = calls
    /\ UNCHANGED <<features, otlpPipeline, metLive, metResult, meterProvider, metAnswers, metAggAnswer,
                   readerVars, logBuilderVars, runtimeVars>>

MetWithResource ==
    \E r \in Resources :
        MetSet(OtlpMetricPipeline_with_resource(metPipe, r),
               [metCalls EXCEPT !.resource = Some(r)])

MetWithTimeout ==
    \E d \in Durations :
        MetSet(OtlpMetricPipeline_with_timeout(metPipe, d),
               [metCalls EXCEPT !.timeout = Some(d)])

MetWithPeriod ==
    \E d \in Durations :
        MetSet(OtlpMetricPipeline_with_period(metPipe, d),
               [metCalls EXCEPT !.period = Some(d)])

MetWithTemporalitySelector ==
    MetSet(OtlpMetricPipeline_with_temporality_selector(metPipe, "CustomTemporalitySelector"),
           [metCalls EXCEPT !.temporality_selector = Some("CustomTemporalitySelector")])

MetWithDeltaTemporality ==
    MetSet(OtlpMetricPipeline_with_delta_temporality(metPipe),
           [metCalls EXCEPT !.temporality_selector = Some("DeltaTemporalitySelector")])

MetWithAggregationSelector ==
    MetSet(OtlpMetricPipeline_with_aggregation_selector(metPipe, "CustomAggregationSelector"),
           [metCalls EXCEPT !.aggregator_selector = Some("CustomAggregationSelector")])

MetWithExporter ==
    /\ metLive
    /\ OtlpMetricPipeline_NoExporterConfig(metPipe)
    /\ \E b \in MetricsExporterBuilder_inputs(features) :
          MetSet(OtlpMetricPipeline_with_exporter(metPipe, MetricsExporterBuilder_into(b)),
                 metCalls)

MetBuild ==
    /\ metLive
    /\ OtlpMetricPipeline_MetricsExporterBuilder(metPipe, features)
    /\ \E transportOk \in BOOLEAN :
          LET result == OtlpMetricPipeline_build(metPipe, transportOk)
          IN  /\ metLive' = FALSE
              /\ metResult' = IF result.ok THEN "Ok" ELSE "Err"
              /\ meterProvider' = IF result.ok THEN Unwrap(result.val) ELSE NoProvider
              /\ readerTimer' = result.ok
              /\ readerPc' = IF result.ok THEN "idle" ELSE readerPc
    /\ UNCHANGED <<features, otlpPipeline, metPipe, metCalls, metAnswers, metAggAnswer, metClient, measurements,
                   metCycles, metExportErrors, metClientResult, metShutdownCall, metClientShutdown,
                   metShutdownResult, logBuilderVars, runtimeVars>>

\* The reader asks the exporter which temporality an instrument kind gets.
MetTemporality ==
    /\ meterProvider.built
    /\ \E kind \in InstrumentKind :
          metAnswers' =
              [metAnswers EXCEPT
                 ![kind] = @ \cup {MetricsExporter_temporality(meterProvider.reader.exporter,
                                                              kind)}]
    /\ UNCHANGED <<features, otlpPipeline, metPipe, metCalls, metLive, metResult, meterProvider,
                   metAggAnswer, readerVars, logBuilderVars, runtimeVars>>

\* The reader asks the exporter which aggregation an instrument kind gets.
MetAggregation ==
    /\ meterProvider.built
    /\ \E kind \in InstrumentKind :
          metAggAnswer' =
              Some([kind |-> kind,
                    aggregation |-> MetricsExporter_aggregation(meterProvider.reader.exporter,
                                                                kind)])
    /\ UNCHANGED <<features, otlpPipeline, metPipe, metCalls, metLive, metResult, meterProvider,
                   metAnswers, readerVars, logBuilderVars, runtimeVars>>

NextPipelines ==
    \/ Logging
    \/ Metrics
    \/ LogWithResource
    \/ LogWithBatchConfig
    \/ LogWithExporter
    \/ LogInstallSimple
    \/ LogInstallBatch
    \/ LogSetResource
    \/ MetWithResource
    \/ MetWithTimeout
    \/ MetWithPeriod
    \/ MetWithTemporalitySelector
    \/ MetWithDeltaTemporality
    \/ MetWithAggregationSelector
    \/ MetWithExporter
    \/ MetBuild
    \/ MetTemporality

SpecPipelines == Init /\ [][NextPipelines]_vars

\* The metric pipeline alone, from metrics(rt) on, with the calls that decide
\* the selectors of the built exporter and the queries the reader makes of it.
InitSelectors ==
    /\ features = {"grpc-tonic"}
    /\ otlpPipeline = FALSE
    /\ LogBuilderInit
    /\ metPipe = OtlpPipeline_metrics("rt")
    /\ metCalls = NoMetCalls
    /\ metLive = TRUE
    /\ metResult = "NotCalled"
    /\ meterProvider = NoProvider
    /\ metAnswers = [kind \in InstrumentKind |-> {}]
    /\ metAggAnswer = None
    /\ ReaderInit
    /\ logClient = NewClient
    /\ ProcessorInit

NextSelectors ==
    \/ MetWithResource
    \/ MetWithTemporalitySelector
    \/ MetWithDeltaTemporality
    \/ MetWithAggregationSelector
    \/ MetWithExporter
    \/ MetBuild
    \/ MetTemporality
    \/ MetAggregation

SpecSelectors == InitSelectors /\ [][NextSelectors]_vars

----------------------------------------------------------------------------
(* The batch log processor that build_batch_with_exporter installs: a bounded  *)
(* queue fed by emit and one background consumer that drains it and calls the  *)
(* exporter.                                                                   *)

MaxEmits == 4
MaxFlushes == 2
MaxShutdowns == 2

BatchInstalled == loggerProvider.built /\ loggerProvider.processor = "batch"

\* The BatchConfig the processor was built with.
cfg == Unwrap(loggerProvider.config)

Min(a, b) == IF a <= b THEN a ELSE b

\* emit(record, scope): enqueue, or drop the incoming record when the queue is
\* full; after shutdown the record is not accepted.
BatchLogProcessor_emit(q, record, config, state) ==
    IF state /= "none" THEN [queue |-> q, outcome |-> "rejected"]
    ELSE IF Len(q) >= config.max_queue_size THEN [queue |-> q, outcome |-> "dropped"]
    ELSE [queue |-> Append(q, record), outcome |-> "enqueued"]

\* The records one drain takes: the oldest, at most max_export_batch_size of them.
BatchLogProcessor_drain(q, config) ==
    SubSeq(q, 1, Min(Len(q), config.max_export_batch_size))

BatchLogProcessor_rest(q, config) ==
    SubSeq(q, Min(Len(q), config.max_export_batch_size) + 1, Len(q))

\* A consumer that takes its next step while an export is still running.
ConsumerNotStopped(c) == c /= "stopped"

\* The single consumer takes its next step only when it is not inside an export.
ConsumerFree(c) == c = "idle"

EmitUpTo(limit) ==
    /\ BatchInstalled
    /\ emitted < limit
    /\ emitted' = emitted + 1
    /\ LET r == BatchLogProcessor_emit(queue, emitted + 1, cfg, shutState)
       IN  /\ queue' = r.queue
           /\ lastEmit' = r.outcome
           /\ dropped' = IF r.outcome = "dropped" THEN dropped + 1 ELSE dropped
    /\ UNCHANGED <<features, otlpPipeline, logBuilderVars, metBuilderVars, logClient,
                   flushVars, shutVars, consumerVars>>

Emit == EmitUpTo(MaxEmits)

\* scheduled_delay elapses.
TimerElapsed ==
    /\ BatchInstalled
    /\ ~timerDue
    /\ consumer /= "stopped"
    /\ drainMode /= "shutdown"
    /\ timerDue' = TRUE
    /\ UNCHANGED <<features, otlpPipeline, logBuilderVars, metBuilderVars, logClient,
                   queue, producerVars, flushVars, shutVars, consumer, drainMode,
                   inFlight, exportErrors, clientResult>>

\* The consumer drains one batch and calls the exporter's export with it.
ExportBatch ==
    LET batch == BatchLogProcessor_drain(queue, cfg)
    IN  /\ queue' = BatchLogProcessor_rest(queue, cfg)
        /\ logClient' = LogExporter_export(logClient, batch)
        /\ inFlight' = Append(inFlight, batch)
        /\ consumer' = "exporting"

\* On wake: drain and export; with nothing queued there is no export call.
Drain(mode) ==
    IF queue = <<>>
    THEN /\ drainMode' = IF mode = "timer" THEN "none" ELSE mode
         /\ UNCHANGED <<queue, logClient, inFlight, consumer>>
    ELSE /\ drainMode' = mode
         /\ ExportBatch

WakeOnTimer ==
    /\ BatchInstalled
    /\ ConsumerFree(consumer) /\ drainMode = "none"
    /\ timerDue
    /\ timerDue' = FALSE
    /\ Drain("timer")
    /\ UNCHANGED <<features, otlpPipeline, logBuilderVars, metBuilderVars, producerVars,
                   flushVars, shutVars, exportErrors, clientResult>>

WakeOnSize ==
    /\ BatchInstalled
    /\ ConsumerFree(consumer) /\ drainMode = "none"
    /\ Len(queue) >= cfg.max_export_batch_size
    /\ Drain("size")
    /\ UNCHANGED <<features, otlpPipeline, logBuilderVars, metBuilderVars, producerVars,
                   flushVars, shutVars, timerDue, exportErrors, clientResult>>

WakeOnFlush ==
    /\ BatchInstalled
    /\ ConsumerFree(consumer) /\ drainMode = "none"
    /\ flushPending /= {}
    /\ LET id == CHOOSE i \in flushPending : \A j \in flushPending : i <= j
       IN  /\ flushPending' = flushPending \ {id}
           /\ flushServing' = id
    /\ Drain("flush")
    /\ UNCHANGED <<features, otlpPipeline, logBuilderVars, metBuilderVars, producerVars,
                   flushCalls, flushState, flushMark, flushTimedOut, shutVars, timerDue,
                   exportErrors, clientResult>>

WakeOnShutdown ==
    /\ BatchInstalled
    /\ ConsumerFree(consumer) /\ drainMode = "none"
    /\ shutState = "waiting"
    /\ Drain("shutdown")
    /\ UNCHANGED <<features, otlpPipeline, logBuilderVars, metBuilderVars, producerVars,
                   flushVars, shutVars, timerDue, exportErrors, clientResult>>

\* A flush or shutdown drain goes on while records remain.
ContinueDrain ==
    /\ BatchInstalled
    /\ ConsumerFree(consumer) /\ drainMode \in {"flush", "shutdown"}
    /\ queue /= <<>>
    /\ ExportBatch
    /\ UNCHANGED <<features, otlpPipeline, logBuilderVars, metBuilderVars, producerVars,
                   flushVars, shutVars, drainMode, timerDue, exportErrors,
                   clientResult>>

\* The export call in flight ends: the client succeeded, failed, or
\* max_export_timeout ran out. A failure is recorded; the batch is gone.
ExportComplete ==
    /\ BatchInstalled
    /\ consumer = "exporting"
    /\ inFlight /= <<>>
    /\ \E result \in {"ok", "err", "timeout"} :
          /\ clientResult' = result
          /\ exportErrors' = IF LogExporter_export_result(result) = "ok"
                             THEN exportErrors ELSE exportErrors + 1
    /\ inFlight' = Tail(inFlight)
    /\ consumer' = "idle"
    /\ drainMode' = IF drainMode \in {"timer", "size"} THEN "none" ELSE drainMode
    /\ UNCHANGED <<features, otlpPipeline, logBuilderVars, metBuilderVars, logClient,
                   queue, producerVars, flushVars, shutVars, timerDue>>

\* The flush drain has emptied the queue: the waiting caller is answered.
FlushDone ==
    /\ BatchInstalled
    /\ ConsumerFree(consumer) /\ drainMode = "flush"
    /\ queue = <<>>
    /\ drainMode' = "none"
    /\ flushState' = IF flushState = "waiting" /\ flushServing = flushCalls
                     THEN "ok" ELSE flushState
    /\ UNCHANGED <<features, otlpPipeline, logBuilderVars, metBuilderVars, logClient,
                   queue, producerVars, flushCalls, flushPending, flushServing, flushMark,
                   flushTimedOut, shutVars, consumer, inFlight, timerDue, exportErrors,
                   clientResult>>

\* force_flush(deadline) is called; on a processor that is shutting down it fails.
ForceFlush ==
    /\ BatchInstalled
    /\ flushCalls < MaxFlushes
    /\ flushState /= "waiting"
    /\ flushCalls' = flushCalls + 1
    /\ flushMark' = emitted
    /\ IF shutState /= "none"
       THEN flushState' = "err" /\ UNCHANGED flushPending
       ELSE flushState' = "waiting" /\ flushPending' = flushPending \cup {flushCalls + 1}
    /\ UNCHANGED <<features, otlpPipeline, logBuilderVars, metBuilderVars, logClient,
                   queue, producerVars, flushServing, flushTimedOut, shutVars, consumerVars>>

\* A force_flush deadline that takes the consumer down with it.
BatchLogProcessor_force_flush_abort(c) == "stopped"

\* What the elapsed deadline of a force_flush does to the consumer: nothing, the
\* processor keeps running.
BatchLogProcessor_force_flush_timeout(c) == c

\* The deadline of the waiting force_flush elapses: its caller gets an error.
ForceFlushDeadline ==
    /\ BatchInstalled
    /\ flushState = "waiting"
    /\ flushState' = "err"
    /\ flushTimedOut' = TRUE
    /\ consumer' = BatchLogProcessor_force_flush_timeout(consumer)
    /\ UNCHANGED <<features, otlpPipeline, logBuilderVars, metBuilderVars, logClient,
                   queue, producerVars, flushCalls, flushPending, flushServing, flushMark,
                   shutVars, drainMode, inFlight, timerDue, exportErrors, clientResult>>

\* A shutdown call that starts the shutdown sequence whatever came before.
BatchLogProcessor_shutdown_again(state) == "waiting"

\* shutdown(): the first call stops acceptance and asks the consumer for the final
\* drain; any later call finds the processor shutting or shut down and returns.
BatchLogProcessor_shutdown(state) == IF state = "none" THEN "waiting" ELSE state

Shutdown ==
    /\ BatchInstalled
    /\ shutdownCalls < MaxShutdowns
    /\ shutdownCalls' = shutdownCalls + 1
    /\ lastShutdown' = CASE shutState = "none" -> "first"
                         [] shutState = "waiting" -> "running"
                         [] shutState = "done" -> "done"
    /\ shutState' = BatchLogProcessor_shutdown(shutState)
    /\ UNCHANGED <<features, otlpPipeline, logBuilderVars, metBuilderVars, logClient,
                   queue, producerVars, flushVars, exporterShutdowns, discarded,
                   consumerVars>>

\* The shutdown timeout runs out during the final drain: the rest is discarded.
ShutdownDrainTimeout ==
    /\ BatchInstalled
    /\ ConsumerFree(consumer) /\ drainMode = "shutdown"
    /\ queue /= <<>>
    /\ discarded' = discarded + Len(queue)
    /\ queue' = <<>>
    /\ UNCHANGED <<features, otlpPipeline, logBuilderVars, metBuilderVars, logClient,
                   producerVars, flushVars, shutState, shutdownCalls, lastShutdown,
                   exporterShutdowns, consumerVars>>

\* The final drain is over: the processor calls the exporter's shutdown and stops.
ExporterShutdown ==
    /\ BatchInstalled
    /\ ConsumerFree(consumer) /\ drainMode = "shutdown"
    /\ queue = <<>>
    /\ logClient' = LogExporter_shutdown(logClient)
    /\ exporterShutdowns' = exporterShutdowns + 1
    /\ consumer' = "stopped"
    /\ drainMode' = "none"
    /\ shutState' = "done"
    /\ UNCHANGED <<features, otlpPipeline, logBuilderVars, metBuilderVars, queue,
                   producerVars, flushVars, shutdownCalls, lastShutdown, discarded, inFlight,
                   timerDue, exportErrors, clientResult>>

\* The optional inputs of a build: not set, or set to one of the values.
Optional(S) == {None} \cup {Some(x) : x \in S}

\* logging()[.with_resource(r)][.with_batch_config(c)].with_exporter(b).install_batch(rt)
InstalledBatch(f, resource, batch_config, b) ==
    LET p0 == OtlpPipeline_logging
        p1 == IF IsSome(resource) THEN OtlpLogPipeline_with_resource(p0, Unwrap(resource))
              ELSE p0
        p2 == IF IsSome(batch_config)
              THEN OtlpLogPipeline_with_batch_config(p1, Unwrap(batch_config))
              ELSE p1
        p3 == OtlpLogPipeline_with_exporter(p2, LogExporterBuilder_into(b))
        result == OtlpLogPipeline_install_batch(p3, TRUE)
    IN  /\ features = f
        /\ otlpPipeline = FALSE
        /\ logPipe = p3
        /\ logCalls = [resource |-> resource, batch_config |-> batch_config]
        /\ logLive = FALSE
        /\ logResult = "Ok"
        /\ loggerProvider = Unwrap(result.val)
        /\ logClient = NewClient

\* A provider just installed by install_batch, under the default feature set:
\* logging()[.with_batch_config(c)].with_exporter(tonic).install_batch(rt)
InitBatch ==
    /\ \E batch_config \in Optional(BatchConfigs) :
          InstalledBatch({"grpc-tonic"}, None, batch_config, "TonicExporterBuilder")
    /\ MetBuilderInit
    /\ ProcessorInit

NextBatch ==
    \/ Emit
    \/ TimerElapsed
    \/ WakeOnTimer
    \/ WakeOnSize
    \/ WakeOnFlush
    \/ WakeOnShutdown
    \/ ContinueDrain
    \/ ExportComplete
    \/ FlushDone
    \/ ForceFlush
    \/ ForceFlushDeadline
    \/ Shutdown
    \/ ShutdownDrainTimeout
    \/ ExporterShutdown

Spec == InitBatch /\ [][NextBatch]_vars

----------------------------------------------------------------------------
(* The scenario of 1000 records emitted rapidly into a processor configured    *)
(* with max_queue_size 2048 and max_export_batch_size 512: every record is     *)
(* emitted before scheduled_delay elapses for the first time.                  *)

ScenarioMaxQueueSize == 2048
ScenarioMaxExportBatchSize == 512
ScenarioRecords == 1000

InitScenario ==
    /\ InstalledBatch({"grpc-tonic"}, None,
                      Some(BatchConfig(ScenarioMaxQueueSize, ScenarioMaxExportBatchSize)),
                      "TonicExporterBuilder")
    /\ MetBuilderInit
    /\ ProcessorInit

ScenarioEmit == EmitUpTo(ScenarioRecords)

ScenarioTimer == emitted = ScenarioRecords /\ TimerElapsed

NextScenario ==
    \/ ScenarioEmit
    \/ ScenarioTimer
    \/ WakeOnTimer
    \/ WakeOnSize
    \/ ExportComplete

SpecScenario == InitScenario /\ [][NextScenario]_vars

----------------------------------------------------------------------------
(* The periodic reader that OtlpMetricPipeline::build installs: a timer and one  *)
(* reader task that collects the instruments and calls the exporter.             *)

MaxCycles == 3
MaxMeasurements == 2

ReaderBuilt == meterProvider.built

\* One collection: a fresh snapshot of the instrument state, tagged with its cycle.
PeriodicReader_collect(cycle, why, state) == [cycle |-> cycle, why |-> why, value |-> state]

\* Instrument recording is synchronous and local.
Record ==
    /\ ReaderBuilt
    /\ measurements < MaxMeasurements
    /\ measurements' = measurements + 1
    /\ UNCHANGED <<features, otlpPipeline, logBuilderVars, metPipe, metCalls, metLive, metResult,
                   meterProvider, metAnswers, metAggAnswer, metClient, readerTimer, readerPc, metCycles,
                   metExportErrors, metClientResult, metShutdownCall, metClientShutdown, metShutdownResult,
                   runtimeVars>>

\* The reader task collects and hands the snapshot to the exporter's export.
CollectExport(why, pc) ==
    /\ metClient' = MetricsExporter_export(
                        metClient,
                        PeriodicReader_collect(Len(metClient.exports) + 1, why, measurements))
    /\ readerPc' = pc
    /\ UNCHANGED <<features, otlpPipeline, logBuilderVars, metPipe, metCalls, metLive, metResult,
                   meterProvider, metAnswers, metAggAnswer, measurements, readerTimer, metExportErrors, metClientResult,
                   metShutdownCall, metClientShutdown, metShutdownResult, runtimeVars>>

\* The timer fires: one collect+export cycle.
ReaderTick ==
    /\ ReaderBuilt
    /\ readerTimer
    /\ readerPc = "idle"
    /\ metCycles < MaxCycles
    /\ metCycles' = metCycles + 1
    /\ CollectExport("tick", "exporting")

\* force_flush(): an immediate out-of-band collect+export.
ReaderForceFlush ==
    /\ ReaderBuilt
    /\ readerTimer
    /\ readerPc = "idle"
    /\ metCycles < MaxCycles
    /\ metCycles' = metCycles + 1
    /\ CollectExport("flush", "exporting")

\* The export of a cycle ends: on error or timeout the cycle's data is discarded.
\* After the final export of a shutdown the task goes on to close the exporter.
ReaderExportComplete ==
    /\ ReaderBuilt
    /\ readerPc \in {"exporting", "final"}
    /\ \E result \in {"ok", "err", "timeout"} :
          /\ metClientResult' = result
          /\ metExportErrors' = IF MetricsExporter_export_result(result) = "ok"
                                THEN metExportErrors ELSE metExportErrors + 1
    /\ readerPc' = IF readerPc = "final" THEN "closing" ELSE "idle"
    /\ UNCHANGED <<features, otlpPipeline, logBuilderVars, metPipe, metCalls, metLive, metResult,
                   meterProvider, metAnswers, metAggAnswer, metClient, measurements, readerTimer, metCycles,
                   metShutdownCall, metClientShutdown, metShutdownResult, runtimeVars>>

\* shutdown() is called on the reader; the caller waits for the reader task.
ReaderShutdown ==
    /\ ReaderBuilt
    /\ metShutdownCall = "none"
    /\ metShutdownCall' = "waiting"
    /\ UNCHANGED <<features, otlpPipeline, logBuilderVars, metPipe, metCalls, metLive, metResult,
                   meterProvider, metAnswers, metAggAnswer, metClient, measurements, readerTimer, readerPc,
                   metCycles, metExportErrors, metClientResult, metClientShutdown, metShutdownResult,
                   runtimeVars>>

\* The reader task takes the shutdown request: first it stops the timer.
ReaderStopTimer ==
    /\ ReaderBuilt
    /\ metShutdownCall = "waiting"
    /\ readerPc = "idle"
    /\ readerTimer
    /\ readerTimer' = FALSE
    /\ readerPc' = "stopping"
    /\ UNCHANGED <<features, otlpPipeline, logBuilderVars, metPipe, metCalls, metLive, metResult,
                   meterProvider, metAnswers, metAggAnswer, metClient, measurements, metCycles,
                   metExportErrors, metClientResult, metShutdownCall, metClientShutdown, metShutdownResult,
                   runtimeVars>>

\* Then one best-effort final collect+export.
ReaderFinalCollect ==
    /\ ReaderBuilt
    /\ readerPc = "stopping"
    /\ UNCHANGED metCycles
    /\ CollectExport("final", "final")

\* Then the exporter is shut down, and the caller gets what it returned.
ReaderExporterShutdown ==
    /\ ReaderBuilt
    /\ readerPc = "closing"
    /\ metClient' = MetricsExporter_shutdown(metClient)
    /\ \E result \in {"ok", "err"} :
          /\ metClientShutdown' = result
          /\ metShutdownResult' = MetricsExporter_shutdown_result(result)
    /\ metShutdownCall' = "returned"
    /\ readerPc' = "shutdown"
    /\ UNCHANGED <<features, otlpPipeline, logBuilderVars, metPipe, metCalls, metLive, metResult,
                   meterProvider, metAnswers, metAggAnswer, measurements, readerTimer, metCycles,
                   metExportErrors, metClientResult, runtimeVars>>

\* metrics(rt)[.with_period(p)][.with_timeout(d)][.with_temporality_selector(s)]
\*     .with_exporter(b).build()
BuiltMetrics(f, period, timeout, selector, b) ==
    LET p0 == OtlpPipeline_metrics("rt")
        p1 == IF IsSome(period) THEN OtlpMetricPipeline_with_period(p0, Unwrap(period))
              ELSE p0
        p2 == IF IsSome(timeout) THEN OtlpMetricPipeline_with_timeout(p1, Unwrap(timeout))
              ELSE p1
        p3 == IF IsSome(selector)
              THEN OtlpMetricPipeline_with_temporality_selector(p2, Unwrap(selector))
              ELSE p2
        p4 == OtlpMetricPipeline_with_exporter(p3, MetricsExporterBuilder_into(b))
        result == OtlpMetricPipeline_build(p4, TRUE)
    IN  /\ features = f
        /\ otlpPipeline = FALSE
        /\ metPipe = p4
        /\ metCalls = [NoMetCalls EXCEPT !.period = period, !.timeout = timeout,
                                         !.temporality_selector = selector]
        /\ metLive = FALSE
        /\ metResult = "Ok"
        /\ meterProvider = Unwrap(result.val)
        /\ metAnswers = [kind \in InstrumentKind |-> {}]
        /\ metAggAnswer = None

\* A meter provider just built, its reader's timer running and its task idle.
InitReader ==
    /\ \E period \in Optional(Durations), b \in TransportBuilders :
          BuiltMetrics(AllFeatures, period, None, None, b)
    /\ metClient = NewMetricsClient
    /\ measurements = 0
    /\ readerTimer = TRUE
    /\ readerPc = "idle"
    /\ metCycles = 0
    /\ metExportErrors = 0
    /\ metClientResult = "none"
    /\ metShutdownCall = "none"
    /\ metClientShutdown = "none"
    /\ metShutdownResult = "none"
    /\ LogBuilderInit
    /\ logClient = NewClient
    /\ ProcessorInit

NextReader ==
    \/ Record
    \/ ReaderTick
    \/ ReaderForceFlush
    \/ ReaderExportComplete
    \/ ReaderShutdown
    \/ ReaderStopTimer
    \/ ReaderFinalCollect
    \/ ReaderExporterShutdown

SpecReader == InitReader /\ [][NextReader]_vars

\* What new_pipeline() leads to once installed: a logger provider with its batch
\* processor (here always given a BatchConfig small enough to fill), or a meter
\* provider with its periodic reader, each calling its OTLP exporter.
InitExporters ==
    \/ /\ \E batch_config \in BatchConfigs :
              InstalledBatch({"grpc-tonic"}, None, Some(batch_config), "TonicExporterBuilder")
       /\ MetBuilderInit
       /\ ProcessorInit
    \/ InitReader

NextExporters ==
    \/ Emit
    \/ TimerElapsed
    \/ WakeOnTimer
    \/ WakeOnSize
    \/ WakeOnFlush
    \/ WakeOnShutdown
    \/ ContinueDrain
    \/ ExportComplete
    \/ FlushDone
    \/ ForceFlush
    \/ ForceFlushDeadline
    \/ Shutdown
    \/ ShutdownDrainTimeout
    \/ ExporterShutdown
    \/ Record
    \/ ReaderTick
    \/ ReaderForceFlush
    \/ ReaderExportComplete
    \/ ReaderShutdown
    \/ ReaderStopTimer
    \/ ReaderFinalCollect
    \/ ReaderExporterShutdown

SpecExporters == InitExporters /\ [][NextExporters]_vars

----------------------------------------------------------------------------
(* Properties of the pipeline builders (SpecPipelines) *)

\* C1: an install or build call has only ever been made on a pipeline whose
\* exporter slot with_exporter has filled: whenever install_simple, install_batch
\* or build has returned (and so whenever a provider exists), the exporter slot of
\* the pipeline it consumed is not NoExporterConfig.
C1_InstallOnlyAfterWithExporter ==
    /\ logResult /= "NotCalled" =>
          /\ logPipe.exporter_builder /= NoExporterConfig
          /\ logPipe.exporter_builder \in LogExporterBuilder(features)
    /\ loggerProvider.built => logResult = "Ok"
    /\ metResult /= "NotCalled" =>
          /\ metPipe.exporter_pipeline /= NoExporterConfig
          /\ metPipe.exporter_pipeline \in MetricsExporterBuilder(features)
    /\ meterProvider.built => metResult = "Ok"

\* A batch provider has been installed, after with_resource and with_exporter.
C1_Witness ==
    /\ loggerProvider.built
    /\ loggerProvider.processor = "batch"
    /\ IsSome(loggerProvider.resource)

\* The expected Delta preference, written out per variant.
DeltaPreference ==
    [kind \in InstrumentKind |->
        CASE kind = "Counter" -> "Delta"
          [] kind = "Histogram" -> "Delta"
          [] kind = "ObservableCounter" -> "Delta"
          [] kind = "Gauge" -> "Delta"
          [] kind = "ObservableGauge" -> "Delta"
          [] kind = "UpDownCounter" -> "Cumulative"
          [] kind = "ObservableUpDownCounter" -> "Cumulative"]

UsesDeltaSelector ==
    /\ meterProvider.built
    /\ meterProvider.reader.exporter.temporality_selector = "DeltaTemporalitySelector"

\* C2: there are seven instrument kinds; for each the Delta selector yields a
\* temporality, Delta for Counter, Histogram, ObservableCounter, Gauge and
\* ObservableGauge, Cumulative for UpDownCounter and ObservableUpDownCounter; and
\* an exporter built with_delta_temporality has only ever given that one answer
\* for a kind, however often it was asked.
C2_DeltaSelectorTotal ==
    /\ Cardinality(InstrumentKind) = 7
    /\ \A kind \in InstrumentKind :
          /\ DeltaTemporalitySelector_temporality(kind) \in Temporality
          /\ DeltaTemporalitySelector_temporality(kind) = DeltaPreference[kind]
    /\ UsesDeltaSelector =>
          \A kind \in InstrumentKind : metAnswers[kind] \subseteq {DeltaPreference[kind]}

\* The exporter built with_delta_temporality has been asked about all seven kinds.
C2_Witness ==
    /\ UsesDeltaSelector
    /\ \A kind \in InstrumentKind : metAnswers[kind] /= {}

\* C9: build and install_* end in Ok or Err, never otherwise; build on the
\* Unconfigured variant ends in Err; and an Err leaves no provider behind (no
\* reader, no meter provider, no logger provider, no call to the log client).
C9_NoTransportIsAnError ==
    /\ metResult \in {"NotCalled", "Ok", "Err"}
    /\ logResult \in {"NotCalled", "Ok", "Err"}
    /\ (metResult /= "NotCalled" /\ metPipe.exporter_pipeline = "Unconfigured") =>
          metResult = "Err"
    /\ metResult = "Err" => meterProvider = NoProvider
    /\ logResult = "Err" => (loggerProvider = NoProvider /\ logClient = NewClient)

\* build has been called on a pipeline holding the Unconfigured variant.
C9_Witness ==
    /\ metResult = "Err"
    /\ metPipe.exporter_pipeline = "Unconfigured"
    /\ features = {}

----------------------------------------------------------------------------
(* Properties of the installed batch processor (Spec) *)

\* The BatchConfig the caller gave the pipeline (BatchConfig::default() if none).
Configured ==
    IF IsSome(logPipe.batch_config) THEN Unwrap(logPipe.batch_config)
    ELSE DefaultBatchConfig

RECURSIVE Flatten(_)
Flatten(batches) ==
    IF batches = <<>> THEN <<>> ELSE Head(batches) \o Flatten(Tail(batches))

Range(seq) == {seq[i] : i \in 1..Len(seq)}

Increasing(seq) == \A i \in 1..Len(seq) - 1 : seq[i] < seq[i + 1]

\* The records the client has been handed, in the order it got them.
Exported == Flatten(logClient.exports)

IsEmitStep == emitted' = emitted + 1

\* C3: the queue never holds more than the configured max_queue_size records; an
\* emit on an accepting processor whose queue is full leaves the queue as it is,
\* reports the incoming record dropped and adds exactly one to the drop counter,
\* and the drop counter changes in no other step; an emit never has to wait: it
\* can be taken in every state, whatever the consumer is doing.
C3_DropNewestWhenFull ==
    /\ [](Len(queue) <= Configured.max_queue_size)
    /\ [][(IsEmitStep /\ shutState = "none" /\ Len(queue) >= Configured.max_queue_size)
            => (/\ queue' = queue
                /\ lastEmit' = "dropped"
                /\ dropped' = dropped + 1
                /\ UNCHANGED <<consumerVars, logClient>>)]_vars
    /\ [][dropped' /= dropped
            => (IsEmitStep /\ Len(queue) = Configured.max_queue_size)]_vars
    /\ [](emitted < MaxEmits => ENABLED Emit)

\* An emit has just found the queue full while the consumer was inside an export.
C3_Witness ==
    /\ lastEmit = "dropped"
    /\ dropped = 1
    /\ Len(queue) = Configured.max_queue_size
    /\ emitted = Configured.max_queue_size + Len(Exported) + 1
    /\ consumer = "exporting"

\* C4: once a force_flush has completed, with no more emit calls before it than
\* max_queue_size, every record emitted before it has been handed to export; the
\* records handed to export are emitted records, each once and in emit order; and
\* no batch is empty or larger than the configured max_export_batch_size.
C4_FlushExportsAllInOrder ==
    /\ (flushState = "ok" /\ flushMark <= Configured.max_queue_size) =>
          1..flushMark \subseteq Range(Exported)
    /\ Increasing(Exported)
    /\ Range(Exported) \subseteq 1..emitted
    /\ \A i \in 1..Len(logClient.exports) :
          /\ Len(logClient.exports[i]) >= 1
          /\ Len(logClient.exports[i]) <= Configured.max_export_batch_size

\* A force_flush of a full queue has completed; the flush took several batches.
C4_Witness ==
    /\ flushState = "ok"
    /\ flushMark = Configured.max_queue_size
    /\ emitted = flushMark
    /\ Len(Exported) = flushMark
    /\ Len(logClient.exports) >= 2
    /\ timerDue = FALSE
    /\ flushCalls = 1

\* C5: never more than one export call is in flight, the consumer being inside
\* an export exactly while one is; and an export call starts only when no
\* earlier one is still in flight.
C5_SingleFlight ==
    /\ [](Len(inFlight) <= 1)
    /\ []((consumer = "exporting") <=> (Len(inFlight) = 1))
    /\ [][Len(logClient'.exports) > Len(logClient.exports) => inFlight = <<>>]_vars

\* One export is in flight while the timer, the size trigger, a force_flush and a
\* shutdown are all waiting for the consumer.
C5_Witness ==
    /\ Len(inFlight) = 1
    /\ timerDue
    /\ Len(queue) >= Configured.max_export_batch_size
    /\ flushPending /= {}
    /\ shutState = "waiting"

\* C6: once a shutdown has completed, no step makes a further call of the
\* exporter's export or shutdown, and a further shutdown call changes nothing
\* but the count of calls and what the call reports; the exporter's shutdown is
\* called once at most.
C6_ShutdownIdempotent ==
    /\ [](exporterShutdowns <= 1)
    /\ [][shutState = "done"
            => (/\ shutState' = "done"
                /\ logClient' = logClient
                /\ exporterShutdowns' = exporterShutdowns
                /\ UNCHANGED <<queue, consumerVars>>)]_vars
    /\ [][(shutState = "done" /\ shutdownCalls' /= shutdownCalls)
            => (/\ lastShutdown' = "done"
                /\ UNCHANGED <<logClient, queue, producerVars, flushVars, shutState,
                               exporterShutdowns, discarded, consumerVars>>)]_vars

\* A second shutdown call was made after the first had completed, and the first
\* had exported records.
C6_Witness ==
    /\ lastShutdown = "done"
    /\ shutdownCalls = 2
    /\ exporterShutdowns = 1
    /\ Len(logClient.exports) >= 1

\* C7: when the exporter's shutdown is called, acceptance has stopped and the
\* final drain is over; and once the shutdown of a provider built through the OTLP
\* pipeline has completed, the transport client's shutdown has been called.
C7_ShutdownReachesClient ==
    /\ exporterShutdowns > 0
          => (shutState = "done" /\ queue = <<>> /\ inFlight = <<>>)
    /\ shutState = "done" => (exporterShutdowns = 1 /\ logClient.shutdowns >= 1)

\* C8: the client is handed every drained batch and each record once at most;
\* a record handed to export is not in the queue again; when an export call
\* ends, the queue, the client's calls and the result of the last emit stay as
\* they were, and the internal failure count grows by one exactly when the client
\* did not succeed; and emit reports nothing but what it did with its own record.
\* The metrics wrapper likewise: the metrics client is handed each collected
\* snapshot once, as many export calls as cycles were started; when such a call
\* ends, whatever its result, the client's calls stay as they were, and the
\* reader's failure count grows by one exactly when the client did not succeed.
C8_NoRetry ==
    /\ [](Increasing(Exported))
    /\ [](\A i \in 1..Len(inFlight) : inFlight[i] \in Range(logClient.exports))
    /\ [](Range(queue) \cap Range(Exported) = {})
    /\ [](lastEmit \in {"none", "enqueued", "dropped", "rejected"})
    /\ [][Len(inFlight') < Len(inFlight)
            => (/\ queue' = queue
                /\ logClient' = logClient
                /\ UNCHANGED producerVars
                /\ clientResult' \in {"ok", "err", "timeout"}
                /\ exportErrors' = IF clientResult' = "ok" THEN exportErrors
                                   ELSE exportErrors + 1)]_vars
    /\ [](\A i \in 1..Len(metClient.exports) : metClient.exports[i].cycle = i)
    /\ [](Len(metClient.exports) =
            metCycles + (IF readerPc \in {"final", "closing", "shutdown"} THEN 1 ELSE 0))
    /\ [][(readerPc \in {"exporting", "final"} /\ readerPc' \notin {"exporting", "final"})
            => (/\ metClient' = metClient
                /\ measurements' = measurements
                /\ metClientResult' \in {"ok", "err", "timeout"}
                /\ metExportErrors' = IF metClientResult' = "ok" THEN metExportErrors
                                      ELSE metExportErrors + 1)]_vars

\* Two exports have failed and a third batch is in flight.
C8_Witness ==
    /\ exportErrors = 2
    /\ Len(logClient.exports) = 3
    /\ Len(inFlight) = 1

----------------------------------------------------------------------------
(* Properties of the 1000-record scenario (SpecScenario) *)

FirstExportStarts == Len(logClient.exports) = 0 /\ Len(logClient'.exports) = 1

Interval(a, b) == [i \in 1..(b - a + 1) |-> a + i - 1]

ScenarioOver ==
    /\ emitted = ScenarioRecords
    /\ queue = <<>>
    /\ inFlight = <<>>

\* C10 as stated: the first export call is made only once scheduled_delay has
\* elapsed, and it carries 512 records.
C10_FirstExportAfterDelay ==
    [][FirstExportStarts
         => (timerDue /\ Len(logClient'.exports[1]) = ScenarioMaxExportBatchSize)]_vars

\* C10, amended: the first export call is made once the consumer finds 512
\* records queued, which need not wait for scheduled_delay; it carries the first
\* 512 records, a second call carries the other 488, there is no third call, and
\* when the queue has been emptied the two calls hold the 1000 records, each once,
\* with none dropped.
C10_TwoExportsCarryAll ==
    /\ dropped = 0
    /\ Len(logClient.exports) <= 2
    /\ Len(logClient.exports) >= 1 =>
          logClient.exports[1] = Interval(1, ScenarioMaxExportBatchSize)
    /\ Len(logClient.exports) = 2 =>
          logClient.exports[2] = Interval(ScenarioMaxExportBatchSize + 1, ScenarioRecords)
    /\ ScenarioOver =>
          /\ Len(logClient.exports) = 2
          /\ Exported = Interval(1, ScenarioRecords)

\* All 1000 records have been emitted and both exports are over.
C10_Witness ==
    /\ ScenarioOver
    /\ consumer = "idle"
    /\ Len(logClient.exports) = 2
    /\ Len(logClient.exports[2]) = ScenarioRecords - ScenarioMaxExportBatchSize
    /\ exportErrors = 0

----------------------------------------------------------------------------
(* A force_flush that runs into its deadline (Spec) *)

\* A force_flush has timed out on a processor nobody has shut down.
RunningAfterFlushTimeout == flushTimedOut /\ shutState = "none"

\* C11: a force_flush whose deadline elapses returns an error to its caller and
\* changes nothing else of the processor (queue, consumer, exports, shutdown
\* state); afterwards, while nobody has shut the processor down, the consumer is
\* not stopped, emit is still accepted and enqueues when there is room, the
\* consumer still answers the timer, size and flush triggers with an export, and
\* force_flush and shutdown can still be called and start their work.
C11_FlushTimeoutIsSoft ==
    /\ [][(flushState = "waiting" /\ flushState' = "err")
            => (/\ flushTimedOut'
                /\ UNCHANGED <<queue, logClient, producerVars, shutVars, consumerVars,
                               flushPending>>)]_vars
    /\ [](RunningAfterFlushTimeout =>
            /\ consumer /= "stopped"
            /\ emitted < MaxEmits => ENABLED Emit
            /\ (flushState /= "waiting" /\ flushCalls < MaxFlushes) => ENABLED ForceFlush
            /\ shutdownCalls < MaxShutdowns => ENABLED Shutdown
            /\ (consumer = "idle" /\ drainMode = "none" /\ timerDue) => ENABLED WakeOnTimer
            /\ (consumer = "idle" /\ drainMode = "none"
                  /\ Len(queue) >= Configured.max_export_batch_size) => ENABLED WakeOnSize
            /\ (consumer = "idle" /\ drainMode = "none" /\ flushPending /= {})
                  => ENABLED WakeOnFlush)
    /\ [][(RunningAfterFlushTimeout /\ IsEmitStep)
            => (IF Len(queue) < Configured.max_queue_size
                THEN queue' = Append(queue, emitted') /\ lastEmit' = "enqueued"
                ELSE queue' = queue /\ lastEmit' = "dropped")]_vars
    /\ [][(RunningAfterFlushTimeout /\ flushCalls' = flushCalls + 1)
            => (flushState' = "waiting" /\ flushCalls' \in flushPending')]_vars
    /\ [][(RunningAfterFlushTimeout /\ shutdownCalls' = shutdownCalls + 1)
            => (shutState' = "waiting" /\ lastShutdown' = "first")]_vars

\* After a force_flush timed out, a later force_flush has completed, exporting a
\* record emitted after it was called, and a shutdown has run to its end.
C11_Witness ==
    /\ flushTimedOut
    /\ flushState = "ok"
    /\ flushCalls = 2
    /\ flushMark >= 1
    /\ emitted > flushMark
    /\ Len(Exported) = emitted
    /\ shutState = "done"
    /\ exporterShutdowns = 1
    /\ dropped = 0

----------------------------------------------------------------------------
(* Shutdown of the periodic reader (SpecReader) *)

\* The positions of the exports of the given kind among the client's exports.
ExportsOf(why) == {i \in 1..Len(metClient.exports) : metClient.exports[i].why = why}

IsMetExportStep == Len(metClient'.exports) = Len(metClient.exports) + 1

IsMetShutdownStep == metClient'.shutdowns = metClient.shutdowns + 1

\* C12: the reader's shutdown stops the timer, then performs exactly one final
\* collect+export, then shuts the exporter down: the final export starts only
\* with the timer stopped, the client's shutdown is called once, only after the
\* one final export has ended, and MetricsExporter::shutdown returns what the
\* client's shutdown returned; once the timer is stopped no tick or flush cycle
\* is exported any more, and nothing is exported after the exporter's shutdown.
C12_ReaderShutdownOrder ==
    /\ [][IsMetExportStep =>
            LET snapshot == metClient'.exports[Len(metClient'.exports)]
            IN  /\ metClient.shutdowns = 0
                /\ readerTimer => snapshot.why \in {"tick", "flush"}
                /\ ~readerTimer => (snapshot.why = "final" /\ ExportsOf("final") = {})]_vars
    /\ [][IsMetShutdownStep =>
            /\ ~readerTimer
            /\ metClient.shutdowns = 0
            /\ readerPc = "closing"
            /\ Cardinality(ExportsOf("final")) = 1
            /\ ExportsOf("final") = {Len(metClient.exports)}
            /\ metClient'.exports = metClient.exports
            /\ metShutdownResult' = metClientShutdown'
            /\ metShutdownResult' \in {"ok", "err"}]_vars
    /\ [][readerTimer' => readerTimer]_vars
    /\ [](metShutdownCall = "returned" =>
            /\ metClient.shutdowns = 1
            /\ ~readerTimer
            /\ Cardinality(ExportsOf("final")) = 1
            /\ metShutdownResult = metClientShutdown)
    /\ [](metShutdownResult /= "none" => metClient.shutdowns = 1)

\* After two timer cycles the reader was shut down: the final export is the
\* client's third; its shutdown failed and the caller was told so.
C12_Witness ==
    /\ metShutdownCall = "returned"
    /\ metShutdownResult = "err"
    /\ metClient.shutdowns = 1
    /\ Len(metClient.exports) = 3
    /\ ExportsOf("tick") = {1, 2}
    /\ ExportsOf("final") = {3}
    /\ metClient.exports[3].value = MaxMeasurements

----------------------------------------------------------------------------
(* Selectors of the built metrics pipeline (SpecSelectors) *)

\* The selectors build is to use: the ones set on the builder, the defaults if unset.
ConfiguredTemporalitySelector ==
    IF metPipe.temporality_selector = None THEN "DefaultTemporalitySelector"
    ELSE metPipe.temporality_selector[1]

ConfiguredAggregationSelector ==
    IF metPipe.aggregator_selector = None THEN "DefaultAggregationSelector"
    ELSE metPipe.aggregator_selector[1]

\* A step that turns the builder's temporality selector into the Delta one.
IsDeltaTemporalityStep ==
    /\ metLive /\ metLive'
    /\ metPipe.temporality_selector /= <<"DeltaTemporalitySelector">>
    /\ metPipe'.temporality_selector = <<"DeltaTemporalitySelector">>

\* C13: for every InstrumentKind the built exporter reports the temporality and
\* the aggregation of the selectors configured on the builder, and every answer
\* it has given is that one; with no temporality selector configured the
\* temporality is Cumulative for every kind, with with_delta_temporality it is
\* the Delta preference; and the step to the Delta selector leaves the
\* aggregation selector and every other builder field as they were.
C13_SelectorsAsConfigured ==
    /\ [](meterProvider.built =>
            \A kind \in InstrumentKind :
                LET exporter == meterProvider.reader.exporter
                    temporality == TemporalitySelector_temporality(
                                       ConfiguredTemporalitySelector, kind)
                    aggregation == AggregationSelector_aggregation(
                                       ConfiguredAggregationSelector, kind)
                IN  /\ MetricsExporter_temporality(exporter, kind) = temporality
                    /\ MetricsExporter_aggregation(exporter, kind) = aggregation
                    /\ metAnswers[kind] \subseteq {temporality}
                    /\ (metAggAnswer /= None /\ metAggAnswer[1].kind = kind)
                          => metAggAnswer[1].aggregation = aggregation
                    /\ metPipe.temporality_selector = None => temporality = "Cumulative"
                    /\ metPipe.temporality_selector = <<"DeltaTemporalitySelector">>
                          => temporality = DeltaPreference[kind]
                    /\ metPipe.aggregator_selector = None
                          => aggregation = DefaultAggregationSelector_aggregation(kind))
    /\ [][IsDeltaTemporalityStep =>
            /\ metPipe'.aggregator_selector = metPipe.aggregator_selector
            /\ metPipe'.exporter_pipeline = metPipe.exporter_pipeline
            /\ metPipe'.resource = metPipe.resource
            /\ metPipe'.period = metPipe.period
            /\ metPipe'.timeout = metPipe.timeout
            /\ metPipe'.rt = metPipe.rt]_vars

\* A pipeline built after with_aggregation_selector and then with_delta_temporality
\* has answered Cumulative for UpDownCounter, Delta for Counter, and the custom
\* aggregation for Histogram.
C13_Witness ==
    /\ meterProvider.built
    /\ metPipe.temporality_selector = <<"DeltaTemporalitySelector">>
    /\ metPipe.aggregator_selector = <<"CustomAggregationSelector">>
    /\ metAnswers["UpDownCounter"] = {"Cumulative"}
    /\ metAnswers["Counter"] = {"Delta"}
    /\ metAggAnswer = <<[kind |-> "Histogram", aggregation |-> "Sum"]>>

----------------------------------------------------------------------------
(* Builder configuration reaches the provider (SpecPipelines) *)

\* The fields of a pipeline record that a step has changed.
ChangedFields(old, new) == {f \in DOMAIN old : new[f] /= old[f]}

IsLogBuilderStep == logLive /\ logLive' /\ logPipe' /= logPipe

IsMetBuilderStep == metLive /\ metLive' /\ metPipe' /= metPipe

\* C14: builder configuration is never lost. At every moment each optional field
\* of a pipeline holds the argument of the latest call of its setter (None if it
\* was never called), before and after with_exporter and after install/build; a
\* builder call changes one field only, with_exporter only the exporter slot,
\* once; and the provider an install/build returned was made from those latest
\* values: the resource is handed on exactly when it was set, the period and timeout
\* given to the reader are the ones set or none, the selectors are the ones set
\* or the defaults, and the batch processor gets the BatchConfig set or
\* BatchConfig::default().
C14_BuilderConfigurationKept ==
    /\ [](logPipe /= NoPipeline =>
            /\ logPipe.resource = logCalls.resource
            /\ logPipe.batch_config = logCalls.batch_config)
    /\ [](metPipe /= NoPipeline =>
            \A f \in DOMAIN metCalls : metPipe[f] = metCalls[f])
    /\ [][IsLogBuilderStep =>
            /\ Cardinality(ChangedFields(logPipe, logPipe')) = 1
            /\ logPipe'.exporter_builder /= logPipe.exporter_builder =>
                  (logPipe.exporter_builder = NoExporterConfig /\ logCalls' = logCalls)]_vars
    /\ [][IsMetBuilderStep =>
            /\ Cardinality(ChangedFields(metPipe, metPipe')) = 1
            /\ metPipe'.exporter_pipeline /= metPipe.exporter_pipeline =>
                  (metPipe.exporter_pipeline = NoExporterConfig /\ metCalls' = metCalls)]_vars
    /\ [](loggerProvider.built =>
            /\ loggerProvider.resource = logCalls.resource
            /\ loggerProvider.processor = "simple" => loggerProvider.config = None
            /\ loggerProvider.processor = "batch" =>
                  loggerProvider.config =
                      IF logCalls.batch_config = None THEN <<DefaultBatchConfig>>
                      ELSE logCalls.batch_config)
    /\ [](meterProvider.built =>
            /\ meterProvider.resource = metCalls.resource
            /\ meterProvider.reader.interval = metCalls.period
            /\ meterProvider.reader.timeout = metCalls.timeout
            /\ meterProvider.reader.exporter.temporality_selector =
                  (IF metCalls.temporality_selector = None THEN "DefaultTemporalitySelector"
                   ELSE metCalls.temporality_selector[1])
            /\ meterProvider.reader.exporter.aggregation_selector =
                  (IF metCalls.aggregator_selector = None THEN "DefaultAggregationSelector"
                   ELSE metCalls.aggregator_selector[1]))

\* install_batch has returned a provider for a pipeline whose resource was set and
\* whose batch config was not: the provider was built with that resource and the
\* processor runs on BatchConfig::default().
C14_Witness ==
    /\ loggerProvider.built
    /\ loggerProvider.processor = "batch"
    /\ logCalls = [resource |-> <<NumResources>>, batch_config |-> None]
    /\ loggerProvider.config = <<DefaultBatchConfig>>
    /\ loggerProvider.resource = <<NumResources>>
    /\ logPipe.exporter_builder = "Http"
    /\ features = AllFeatures

====
